---- MODULE Spec2Model ----
(***************************************************************************)
(* Model of the POST /identify handler of the Bitespeed identity API       *)
(* (src/src/index.ts).  The Contact table is a sequence of rows in         *)
(* insertion order; one action is one complete, sequentially executed      *)
(* request.                                                                *)
(***************************************************************************)
EXTENDS Integers, Sequences, FiniteSets, TLC

\* ------------------------------------------------------------------ bounds
MaxContacts == 3      \* rows the table may hold
NumEmails   == 2      \* distinct non-empty email strings
NumPhones   == 2      \* distinct non-empty phone strings

\* ------------------------------------------------------------------ values
\* undefined (request field absent) and NULL (column without a value)
Null == 0
\* the empty string "", falsy in JavaScript but a value the table can store
EmptyStr == 0 - 1

EmailInputs == {Null, EmptyStr} \cup (1..NumEmails)
PhoneInputs == {Null, EmptyStr} \cup (1..NumPhones)

\* JavaScript truthiness of a string | number | null | undefined
\* (`!email`, `email ? .. : ..`, `.filter(Boolean)`)
Truthy(v) == v # Null /\ v # EmptyStr

VARIABLES
    contacts,   \* the Contact table, rows in insertion order
    nextId,     \* the autoincrement id the next insert gets
    now,        \* the clock `createdAt` is taken from
    prev,       \* the table as the last request found it
    req,        \* the last request body
    resp,       \* the last response
    ops,        \* the repository operations the last request performed
    repeated,   \* the last request carried the same body as the one before
    calls       \* the requests in progress when their steps interleave

vars == <<contacts, nextId, now, prev, req, resp, ops, repeated, calls>>

\* ------------------------------------------------------------- sequences
Range(s) == {s[i] : i \in 1..Len(s)}

RECURSIVE MapEmail(_)
MapEmail(s) == IF s = <<>> THEN <<>> ELSE <<Head(s).email>> \o MapEmail(Tail(s))

RECURSIVE MapPhone(_)
MapPhone(s) == IF s = <<>> THEN <<>> ELSE <<Head(s).phoneNumber>> \o MapPhone(Tail(s))

RECURSIVE MapId(_)
MapId(s) == IF s = <<>> THEN <<>> ELSE <<Head(s).id>> \o MapId(Tail(s))

\* Array.prototype.includes
Includes(s, v) == \E i \in 1..Len(s) : s[i] = v

\* .filter(Boolean)
FilterBoolean(s) == SelectSeq(s, Truthy)

\* Array.from(new Set(s)): first occurrence of each value, in order
RECURSIVE ArrayFromSet(_)
ArrayFromSet(s) ==
    IF s = <<>> THEN <<>>
    ELSE LET init == ArrayFromSet(SubSeq(s, 1, Len(s) - 1))
             last == s[Len(s)]
         IN  IF Includes(init, last) THEN init ELSE Append(init, last)

\* orderBy: { createdAt: 'asc' } (stable insertion sort)
RECURSIVE InsertByCreatedAt(_, _)
InsertByCreatedAt(c, s) ==
    IF s = <<>> THEN <<c>>
    ELSE IF c.createdAt < Head(s).createdAt THEN <<c>> \o s
    ELSE <<Head(s)>> \o InsertByCreatedAt(c, Tail(s))

RECURSIVE OrderByCreatedAt(_)
OrderByCreatedAt(s) ==
    IF s = <<>> THEN <<>>
    ELSE InsertByCreatedAt(s[Len(s)], OrderByCreatedAt(SubSeq(s, 1, Len(s) - 1)))

\* Math.max in place of Math.min
MathMax(s) == CHOOSE m \in Range(s) : \A x \in Range(s) : x <= m

\* Math.min(...s) of a non-empty array
MathMin(s) == CHOOSE m \in Range(s) : \A x \in Range(s) : m <= x

\* ------------------------------------------------------------ repository
\* prisma.contact.create: the row gets the next id and the current time
NewContact(id, clock, email, phoneNumber, linkPrecedence, linkedId) ==
    [id |-> id, email |-> email, phoneNumber |-> phoneNumber,
     linkedId |-> linkedId, linkPrecedence |-> linkPrecedence,
     createdAt |-> clock]

\* an update of the root contact in place of an insert
CreateAsUpdate(store, rows) ==
    IF rows = <<>> \/ rows[1].linkedId = Null THEN store \o rows
    ELSE [i \in 1..Len(store) |->
             IF store[i].id = rows[1].linkedId
             THEN [store[i] EXCEPT !.email = rows[1].email,
                                   !.phoneNumber = rows[1].phoneNumber]
             ELSE store[i]]

\* an insert that a unique (email, phoneNumber) constraint turns away
CreateUnique(store, rows) ==
    SelectSeq(store \o rows, LAMBDA r :
        ~\E c \in Range(store) :
            c.id # r.id /\ c.email = r.email /\ c.phoneNumber = r.phoneNumber)

\* prisma.contact.create: the table with the new rows appended
Create(store, rows) == store \o rows

\* the clauses built without the `email ?` and `phoneNumber ?` guards
MatchesRequestUnguarded(c, email, phoneNumber) ==
    \/ c.email = email
    \/ c.phoneNumber = phoneNumber

\* where: { OR: [ ...(email ? [{email}] : []), ...(phoneNumber ? [{phoneNumber}] : []) ] }
MatchesRequest(c, email, phoneNumber) ==
    \/ Truthy(email) /\ c.email = email
    \/ Truthy(phoneNumber) /\ c.phoneNumber = phoneNumber

\* Step 1: matchedContacts
MatchedContacts(store, email, phoneNumber) ==
    OrderByCreatedAt(
        SelectSeq(store, LAMBDA c : MatchesRequest(c, email, phoneNumber)))

\* where: { OR: [ {id: rootPrimaryId}, {linkedId: rootPrimaryId} ] }, table order
ClusterRows(store, rootPrimaryId) ==
    SelectSeq(store, LAMBDA c : c.id = rootPrimaryId \/ c.linkedId = rootPrimaryId)

\* the where clause left out: the whole table taken as the cluster
AllContactsWholeTable(store, rootPrimaryId) == OrderByCreatedAt(store)

\* Step 4: allContacts
AllContacts(store, rootPrimaryId) ==
    OrderByCreatedAt(ClusterRows(store, rootPrimaryId))

RECURSIVE Reverse(_)
Reverse(s) == IF s = <<>> THEN <<>> ELSE Append(Reverse(Tail(s)), Head(s))

\* the rows returned newest first
UpdatedContactsDesc(store, rootPrimaryId) == Reverse(ClusterRows(store, rootPrimaryId))

\* Step 6: updatedContacts.  The query has no orderBy; the rows come in table
\* order, which is insertion order since the handler never updates or
\* deletes a row.
UpdatedContacts(store, rootPrimaryId) == ClusterRows(store, rootPrimaryId)

\* --------------------------------------------------------------- handler
\* a check for undefined alone, which lets "" through
InvalidRequestUndefinedOnly(email, phoneNumber) == email = Null /\ phoneNumber = Null

\* if (!email && !phoneNumber)
InvalidRequest(email, phoneNumber) == ~Truthy(email) /\ ~Truthy(phoneNumber)

\* a matched contact taken as its own root whatever its precedence
OwnRootIdSelf(c) == c.id

\* c => (c.linkPrecedence === 'primary' ? c.id : c.linkedId)
OwnRootId(c) == IF c.linkPrecedence = "primary" THEN c.id ELSE c.linkedId

RECURSIVE MapOwnRootId(_)
MapOwnRootId(s) ==
    IF s = <<>> THEN <<>> ELSE <<OwnRootId(Head(s))>> \o MapOwnRootId(Tail(s))

\* Step 3: allLinkedIds
AllLinkedIds(matched) == FilterBoolean(MapOwnRootId(matched))

\* the root taken as the smallest matched id
RootPrimaryIdOfIds(matched) == MathMin(MapId(matched))

\* Step 3: rootPrimaryId
RootPrimaryId(matched) == MathMin(AllLinkedIds(matched))

\* both identifiers required to be new
ShouldCreateBothNew(allContacts, email, phoneNumber) ==
    /\ Truthy(email) /\ ~Includes(MapEmail(allContacts), email)
    /\ Truthy(phoneNumber) /\ ~Includes(MapPhone(allContacts), phoneNumber)

\* the `email &&` and `phoneNumber &&` guards left out
ShouldCreateUnguarded(allContacts, email, phoneNumber) ==
    \/ ~Includes(MapEmail(allContacts), email)
    \/ ~Includes(MapPhone(allContacts), phoneNumber)

\* a row written whenever the request matched
ShouldCreateAlways(allContacts, email, phoneNumber) == TRUE

\* Step 5: shouldCreateNewContact
ShouldCreateNewContact(allContacts, email, phoneNumber) ==
    \/ Truthy(email) /\ ~Includes(MapEmail(allContacts), email)
    \/ Truthy(phoneNumber) /\ ~Includes(MapPhone(allContacts), phoneNumber)

\* one row per supplied identifier instead of one row per request
Step5RowsPerField(allContacts, id, clock, email, phoneNumber, rootPrimaryId) ==
    IF ShouldCreateNewContact(allContacts, email, phoneNumber)
    THEN (IF Truthy(email)
          THEN <<NewContact(id, clock, email, Null, "secondary", rootPrimaryId)>>
          ELSE <<>>)
         \o (IF Truthy(phoneNumber)
             THEN <<NewContact(id + 1, clock + 1, Null, phoneNumber, "secondary",
                               rootPrimaryId)>>
             ELSE <<>>)
    ELSE <<>>

\* Step 5: the rows the request appends to the table
Step5Rows(allContacts, id, clock, email, phoneNumber, rootPrimaryId) ==
    IF ShouldCreateNewContact(allContacts, email, phoneNumber)
    THEN <<NewContact(id, clock, email, phoneNumber, "secondary", rootPrimaryId)>>
    ELSE <<>>

\* the responses
NoResponse ==
    [status |-> 0, primaryContactId |-> Null, emails |-> <<>>,
     phoneNumbers |-> <<>>, secondaryContactIds |-> <<>>]

BadRequestResponse ==
    [status |-> 400, primaryContactId |-> Null, emails |-> <<>>,
     phoneNumbers |-> <<>>, secondaryContactIds |-> <<>>]

\* the fields echoed without the `? [..] : []` guards
NewPrimaryResponseUnguarded(newContact, email, phoneNumber) ==
    [status |-> 200,
     primaryContactId |-> newContact.id,
     emails |-> <<email>>,
     phoneNumbers |-> <<phoneNumber>>,
     secondaryContactIds |-> <<>>]

\* Step 2: res.json({...}) for a new primary
NewPrimaryResponse(newContact, email, phoneNumber) ==
    [status |-> 200,
     primaryContactId |-> newContact.id,
     emails |-> IF Truthy(email) THEN <<email>> ELSE <<>>,
     phoneNumbers |-> IF Truthy(phoneNumber) THEN <<phoneNumber>> ELSE <<>>,
     secondaryContactIds |-> <<>>]

\* secondaryContactIds without the linkPrecedence filter
ClusterResponseAllIds(updatedContacts, rootPrimaryId) ==
    [status |-> 200,
     primaryContactId |-> rootPrimaryId,
     emails |-> ArrayFromSet(FilterBoolean(MapEmail(updatedContacts))),
     phoneNumbers |-> ArrayFromSet(FilterBoolean(MapPhone(updatedContacts))),
     secondaryContactIds |-> MapId(updatedContacts)]

\* Step 6: res.json({...}) for an existing cluster
ClusterResponse(updatedContacts, rootPrimaryId) ==
    [status |-> 200,
     primaryContactId |-> rootPrimaryId,
     emails |-> ArrayFromSet(FilterBoolean(MapEmail(updatedContacts))),
     phoneNumbers |-> ArrayFromSet(FilterBoolean(MapPhone(updatedContacts))),
     secondaryContactIds |->
         MapId(SelectSeq(updatedContacts, LAMBDA c : c.linkPrecedence = "secondary"))]

RECURSIVE CreateOps(_)
CreateOps(n) == IF n = 0 THEN <<>> ELSE <<"create">> \o CreateOps(n - 1)

\* catch (error): res.status(500).json
InternalErrorResponse ==
    [status |-> 500, primaryContactId |-> Null, emails |-> <<>>,
     phoneNumbers |-> <<>>, secondaryContactIds |-> <<>>]

\* the clients whose requests may be in progress together
Callers == {"a", "b"}

\* the awaited repository calls of the handler, by the step that makes them
RepositoryOps ==
    {"findMatched", "createPrimary", "findRoot", "findCluster", "createSecondary",
     "refetchCluster"}

\* a request not yet received
IdleCall ==
    [pc |-> "idle", email |-> Null, phoneNumber |-> Null, matchedContacts |-> <<>>,
     rootPrimaryId |-> Null, allContacts |-> <<>>, written |-> <<>>,
     failedAt |-> "none", resp |-> NoResponse]

\* the request body, and whether it repeats the previous one
Record(email, phoneNumber) ==
    /\ req' = [email |-> email, phoneNumber |-> phoneNumber]
    /\ repeated' = (resp.status # 0 /\ req = [email |-> email, phoneNumber |-> phoneNumber])
    /\ prev' = contacts
    /\ UNCHANGED calls

\* ---------------------------------------------------------------- actions
Init ==
    /\ contacts = <<>>
    /\ nextId = 1
    /\ now = 1
    /\ prev = <<>>
    /\ req = [email |-> Null, phoneNumber |-> Null]
    /\ resp = NoResponse
    /\ ops = <<>>
    /\ repeated = FALSE
    /\ calls = [c \in Callers |-> IdleCall]

\* lines 35-40: neither field given, 400 before any repository access
RejectRequest(email, phoneNumber) ==
    /\ InvalidRequest(email, phoneNumber)
    /\ Record(email, phoneNumber)
    /\ resp' = BadRequestResponse
    /\ ops' = <<>>
    /\ UNCHANGED <<contacts, nextId, now>>

\* lines 43-74: nothing matches, a new primary is created
CreatePrimary(email, phoneNumber) ==
    /\ ~InvalidRequest(email, phoneNumber)
    /\ MatchedContacts(contacts, email, phoneNumber) = <<>>
    /\ Len(contacts) < MaxContacts
    /\ Record(email, phoneNumber)
    /\ LET newContact == NewContact(nextId, now, email, phoneNumber, "primary", Null)
       IN  /\ contacts' = Create(contacts, <<newContact>>)
           /\ resp' = NewPrimaryResponse(newContact, email, phoneNumber)
    /\ nextId' = nextId + 1
    /\ now' = now + 1
    /\ ops' = <<"findMany", "create">>

\* lines 43-57, 76-146: something matches, steps 3 to 6
LinkToCluster(email, phoneNumber) ==
    /\ ~InvalidRequest(email, phoneNumber)
    /\ LET matchedContacts == MatchedContacts(contacts, email, phoneNumber)
       IN  /\ matchedContacts # <<>>
           /\ AllLinkedIds(matchedContacts) # <<>>
           /\ LET rootPrimaryId == RootPrimaryId(matchedContacts)
                  allContacts   == AllContacts(contacts, rootPrimaryId)
                  rows == Step5Rows(allContacts, nextId, now, email, phoneNumber,
                                    rootPrimaryId)
                  store == Create(contacts, rows)
              IN  /\ Len(store) <= MaxContacts
                  /\ Record(email, phoneNumber)
                  /\ contacts' = store
                  /\ nextId' = nextId + Len(rows)
                  /\ now' = now + Len(rows)
                  /\ resp' = ClusterResponse(UpdatedContacts(store, rootPrimaryId),
                                             rootPrimaryId)
                  /\ ops' = <<"findMany", "findUnique", "findMany">>
                            \o CreateOps(Len(rows)) \o <<"findMany">>

\* Addresses and numbers are opaque strings the handler only compares for
\* equality, so the first request to mention a new one uses the next unused
\* number: every table is reached up to a renaming of the strings.
MaxOf(S) == IF S = {} THEN 0 ELSE CHOOSE m \in S : \A x \in S : x <= m
KnownEmails == {c.email : c \in Range(contacts)} \cap (1..NumEmails)
KnownPhones == {c.phoneNumber : c \in Range(contacts)} \cap (1..NumPhones)
RequestEmails == {e \in EmailInputs : e <= MaxOf(KnownEmails) + 1}
RequestPhones == {p \in PhoneInputs : p <= MaxOf(KnownPhones) + 1}

Next ==
    \/ \E email \in RequestEmails, phoneNumber \in RequestPhones :
           RejectRequest(email, phoneNumber)
    \/ \E email \in RequestEmails, phoneNumber \in RequestPhones :
           CreatePrimary(email, phoneNumber)
    \/ \E email \in RequestEmails, phoneNumber \in RequestPhones :
           LinkToCluster(email, phoneNumber)

Spec == Init /\ [][Next]_vars

\* ------------------------------------------- the handler, await by await
\* Each action below is the handler's code up to its next awaited repository
\* call; the requests of different callers interleave at these points.
History == <<prev, req, resp, ops, repeated>>

\* the first await of a failed optional lookup swallowed, the others caught
CatchExceptFindUnique(call) ==
    IF call.pc = "findRoot"
    THEN [call EXCEPT !.pc = "findCluster", !.failedAt = call.pc]
    ELSE [call EXCEPT !.pc = "done", !.failedAt = call.pc,
                      !.resp = InternalErrorResponse]

\* lines 147-150: the awaited call throws, the catch block answers 500
Catch(call) ==
    [call EXCEPT !.pc = "done", !.failedAt = call.pc, !.resp = InternalErrorResponse]

\* lines 35-40: the body is read and validated
Receive(c, email, phoneNumber) ==
    /\ calls[c].pc \in {"idle", "done"}
    /\ calls' = [calls EXCEPT ![c] =
           IF InvalidRequest(email, phoneNumber)
           THEN [IdleCall EXCEPT !.pc = "done", !.email = email,
                                 !.phoneNumber = phoneNumber,
                                 !.resp = BadRequestResponse]
           ELSE [IdleCall EXCEPT !.pc = "findMatched", !.email = email,
                                 !.phoneNumber = phoneNumber]]
    /\ UNCHANGED <<contacts, nextId, now, History>>

\* lines 44-58, 77-81: step 1 returns, the branch is taken, the root computed
FindMatched(c) ==
    /\ calls[c].pc = "findMatched"
    /\ LET matched == MatchedContacts(contacts, calls[c].email, calls[c].phoneNumber)
       IN  calls' = [calls EXCEPT ![c] =
               IF matched = <<>>
               THEN [@ EXCEPT !.pc = "createPrimary", !.matchedContacts = matched]
               ELSE [@ EXCEPT !.pc = "findRoot", !.matchedContacts = matched,
                              !.rootPrimaryId = RootPrimaryId(matched)]]
    /\ UNCHANGED <<contacts, nextId, now, History>>

\* lines 60-73: step 2 inserts the primary and answers
InsertPrimary(c) ==
    /\ calls[c].pc = "createPrimary"
    /\ Len(contacts) < MaxContacts
    /\ LET newContact == NewContact(nextId, now, calls[c].email,
                                    calls[c].phoneNumber, "primary", Null)
       IN  /\ contacts' = Create(contacts, <<newContact>>)
           /\ calls' = [calls EXCEPT ![c] =
                  [@ EXCEPT !.pc = "done",
                            !.written = <<newContact.id>>,
                            !.resp = NewPrimaryResponse(newContact, calls[c].email,
                                                        calls[c].phoneNumber)]]
    /\ nextId' = nextId + 1
    /\ now' = now + 1
    /\ UNCHANGED History

\* lines 84-86: findUnique returns (its result is not used)
FindRoot(c) ==
    /\ calls[c].pc = "findRoot"
    /\ calls' = [calls EXCEPT ![c] = [@ EXCEPT !.pc = "findCluster"]]
    /\ UNCHANGED <<contacts, nextId, now, History>>

\* lines 89-107: step 4 returns and shouldCreateNewContact is decided
FindCluster(c) ==
    /\ calls[c].pc = "findCluster"
    /\ LET all == AllContacts(contacts, calls[c].rootPrimaryId)
       IN  calls' = [calls EXCEPT ![c] =
               [@ EXCEPT !.allContacts = all,
                         !.pc = IF ShouldCreateNewContact(all, calls[c].email,
                                                          calls[c].phoneNumber)
                                THEN "createSecondary" ELSE "refetchCluster"]]
    /\ UNCHANGED <<contacts, nextId, now, History>>

\* lines 108-115: step 5 inserts the secondary
InsertSecondary(c) ==
    /\ calls[c].pc = "createSecondary"
    /\ LET rows == Step5Rows(calls[c].allContacts, nextId, now, calls[c].email,
                             calls[c].phoneNumber, calls[c].rootPrimaryId)
       IN  /\ Len(contacts) + Len(rows) <= MaxContacts
           /\ contacts' = Create(contacts, rows)
           /\ nextId' = nextId + Len(rows)
           /\ now' = now + Len(rows)
           /\ calls' = [calls EXCEPT ![c] =
                  [@ EXCEPT !.pc = "refetchCluster", !.written = MapId(rows)]]
    /\ UNCHANGED History

\* lines 119-146: step 6 returns and the response is sent
RefetchCluster(c) ==
    /\ calls[c].pc = "refetchCluster"
    /\ calls' = [calls EXCEPT ![c] =
           [@ EXCEPT !.pc = "done",
                     !.resp = ClusterResponse(
                         UpdatedContacts(contacts, calls[c].rootPrimaryId),
                         calls[c].rootPrimaryId)]]
    /\ UNCHANGED <<contacts, nextId, now, History>>

\* lines 147-150: the pending repository call rejects
Throw(c) ==
    /\ calls[c].pc \in RepositoryOps
    /\ calls' = [calls EXCEPT ![c] = Catch(calls[c])]
    /\ UNCHANGED <<contacts, nextId, now, History>>

\* one client, request after request, any repository call may fail
NextFail ==
    \/ \E email \in RequestEmails, phoneNumber \in RequestPhones :
           Receive("a", email, phoneNumber)
    \/ FindMatched("a")
    \/ InsertPrimary("a")
    \/ FindRoot("a")
    \/ FindCluster("a")
    \/ InsertSecondary("a")
    \/ RefetchCluster("a")
    \/ Throw("a")

SpecFail == Init /\ [][NextFail]_vars

\* two clients, one request each, their awaits interleaved; the table starts
\* empty or with one contact an earlier request left
InitRace ==
    /\ contacts \in {<<>>, <<NewContact(1, 1, 1, 1, "primary", Null)>>}
    /\ nextId = Len(contacts) + 1
    /\ now = Len(contacts) + 1
    /\ prev = <<>>
    /\ req = [email |-> Null, phoneNumber |-> Null]
    /\ resp = NoResponse
    /\ ops = <<>>
    /\ repeated = FALSE
    /\ calls = [c \in Callers |-> IdleCall]

NextRace ==
    \/ \E c \in Callers, email \in RequestEmails, phoneNumber \in RequestPhones :
           calls[c].pc = "idle" /\ Receive(c, email, phoneNumber)
    \/ \E c \in Callers : FindMatched(c)
    \/ \E c \in Callers : InsertPrimary(c)
    \/ \E c \in Callers : FindRoot(c)
    \/ \E c \in Callers : FindCluster(c)
    \/ \E c \in Callers : InsertSecondary(c)
    \/ \E c \in Callers : RefetchCluster(c)

SpecRace == InitRace /\ [][NextRace]_vars

\* ------------------------------------------------- vocabulary of the claims
\* a field counts as supplied when the request carries a non-empty value
Supplied(v) == v > 0

Primaries(store) == {c \in Range(store) : c.linkPrecedence = "primary"}
Secondaries(store) == {c \in Range(store) : c.linkPrecedence = "secondary"}
Ids(store) == {c.id : c \in Range(store)}

\* the contacts the last request matched in the table it found
EmailHits == {c \in Range(prev) : Supplied(req.email) /\ c.email = req.email}
PhoneHits == {c \in Range(prev) : Supplied(req.phoneNumber) /\ c.phoneNumber = req.phoneNumber}
Hits == EmailHits \cup PhoneHits

\* the primary a contact sits under
Under(c) == IF c.linkPrecedence = "primary" THEN c.id ELSE c.linkedId
HitRoots == {Under(c) : c \in Hits}
HitRoot == CHOOSE r \in HitRoots : \A x \in HitRoots : r <= x

\* root plus the contacts with linkedId = root
ClusterOf(store, root) == {c \in Range(store) : c.id = root \/ c.linkedId = root}
ClusterEmails(store, root) == {c.email : c \in ClusterOf(store, root)} \cap (1..NumEmails)
ClusterPhones(store, root) == {c.phoneNumber : c \in ClusterOf(store, root)} \cap (1..NumPhones)

Succeeded == resp.status = 200
Creates == Cardinality({i \in 1..Len(ops) : ops[i] = "create"})
NewRows == {c \in Range(contacts) : c.id \notin Ids(prev)}

\* contacts tied by a shared email, a shared phone number or a linkedId reference
Tied(c, d) ==
    \/ Supplied(c.email) /\ c.email = d.email
    \/ Supplied(c.phoneNumber) /\ c.phoneNumber = d.phoneNumber
    \/ c.linkedId = d.id
    \/ d.linkedId = c.id

RECURSIVE Connected(_)
Connected(S) ==
    LET T == S \cup {d \in Range(contacts) : \E c \in S : Tied(c, d)}
    IN  IF T = S THEN S ELSE Connected(T)

\* ------------------------------------------------------------------ claims
\* C1: when the match set of a request spans two primaries A and B with
\* A.id < B.id, the response names A and B is left a secondary linked to A.
C1_MergeByMinimumId ==
    Succeeded =>
        \A a \in Primaries(prev), b \in Primaries(prev) :
            (a.id < b.id /\ HitRoots = {a.id, b.id}) =>
                /\ resp.primaryContactId = a.id
                /\ \E r \in Range(contacts) :
                       /\ r.id = b.id
                       /\ r.linkPrecedence = "secondary"
                       /\ r.linkedId = a.id

\* C2: every set of contacts connected by shared emails, shared phone numbers
\* or linkedId references holds exactly one primary.
C2_SinglePrimaryPerCluster ==
    \A c \in Range(contacts) :
        Cardinality(Connected({c}) \cap Primaries(contacts)) = 1

\* C3: a request that repeats the previous successful request gets the same
\* response and writes nothing.
C3_Idempotence ==
    [][(Succeeded /\ req' = req) =>
           /\ resp' = resp
           /\ contacts' = contacts
           /\ \A i \in 1..Len(ops') : ops'[i] # "create"]_vars

C3_Witness ==
    /\ repeated /\ Succeeded
    /\ Len(contacts) >= 2
    /\ Len(resp.secondaryContactIds) >= 1

\* C4: a request that matches no stored contact creates exactly one primary
\* with the request's values and answers with that contact alone.
C4_NewIdentity ==
    (Succeeded /\ Hits = {}) =>
        \E row \in Range(contacts) :
            /\ contacts = Append(prev, row)
            /\ row.id \notin Ids(prev)
            /\ row.linkPrecedence = "primary"
            /\ row.linkedId = Null
            /\ row.email = req.email
            /\ row.phoneNumber = req.phoneNumber
            /\ resp.primaryContactId = row.id
            /\ resp.emails = (IF Supplied(req.email) THEN <<req.email>> ELSE <<>>)
            /\ resp.phoneNumbers =
                   (IF Supplied(req.phoneNumber) THEN <<req.phoneNumber>> ELSE <<>>)
            /\ resp.secondaryContactIds = <<>>

C4_Witness ==
    /\ Succeeded /\ Hits = {}
    /\ prev # <<>>
    /\ ~Supplied(req.email) /\ Supplied(req.phoneNumber)

\* C5: a matching request that brings an email or a phone number the root's
\* cluster lacks creates exactly one secondary under the root, and the
\* response lists the cluster's old values, the new value and the new id.
BringsNew ==
    \/ Supplied(req.email) /\ req.email \notin ClusterEmails(prev, HitRoot)
    \/ Supplied(req.phoneNumber) /\ req.phoneNumber \notin ClusterPhones(prev, HitRoot)

\* C5: such a request appends one secondary under the root and is answered
\* with the old values, the new value and the new id.
C5_Augmentation ==
    (Succeeded /\ Hits # {} /\ BringsNew) =>
        \E row \in Range(contacts) :
            /\ contacts = Append(prev, row)
            /\ row.id \notin Ids(prev)
            /\ row.email = req.email
            /\ row.phoneNumber = req.phoneNumber
            /\ row.linkPrecedence = "secondary"
            /\ row.linkedId = HitRoot
            /\ ClusterEmails(prev, HitRoot) \subseteq Range(resp.emails)
            /\ ClusterPhones(prev, HitRoot) \subseteq Range(resp.phoneNumbers)
            /\ Supplied(req.email) => req.email \in Range(resp.emails)
            /\ Supplied(req.phoneNumber) => req.phoneNumber \in Range(resp.phoneNumbers)
            /\ row.id \in Range(resp.secondaryContactIds)

C5_Witness ==
    /\ Succeeded /\ Hits # {} /\ BringsNew
    /\ Cardinality(ClusterOf(prev, HitRoot)) >= 2
    /\ Len(resp.phoneNumbers) >= 2

\* C6: a request whose supplied identifiers all sit on contacts of the
\* resolved root's cluster creates no row and leaves the table as it was.
C6_NoOp ==
    (Succeeded /\ Hits # {} /\ ~BringsNew) =>
        /\ contacts = prev
        /\ Creates = 0

\* the email and the phone number sit on different contacts of the cluster
C6_Witness ==
    /\ Succeeded /\ Hits # {} /\ ~BringsNew
    /\ Supplied(req.email) /\ Supplied(req.phoneNumber)
    /\ ~\E c \in Range(prev) : c.email = req.email /\ c.phoneNumber = req.phoneNumber

\* C7: a request with neither field supplied is answered 400, touches the
\* repository not at all and leaves the table as it was.
C7_Validation ==
    (resp.status # 0 /\ ~Supplied(req.email) /\ ~Supplied(req.phoneNumber)) =>
        /\ resp.status = 400
        /\ ops = <<>>
        /\ contacts = prev

C7_Witness ==
    /\ resp.status = 400
    /\ req.email = EmptyStr
    /\ contacts # <<>>

\* C8: when every matched contact is a secondary of one primary P, the
\* response names P and none of the matched secondaries.
C8_IndirectRoot ==
    (Succeeded /\ Hits # {}) =>
        \A p \in Primaries(prev) :
            (\A c \in Hits : c.linkPrecedence = "secondary" /\ c.linkedId = p.id) =>
                /\ resp.primaryContactId = p.id
                /\ \A c \in Hits : resp.primaryContactId # c.id

C8_Witness ==
    /\ Succeeded /\ Hits # {}
    /\ \E p \in Primaries(prev) :
           \A c \in Hits : c.linkPrecedence = "secondary" /\ c.linkedId = p.id

\* C9: a request inserts at most one row, never a primary and a secondary both.
C9_AtMostOneWrite ==
    /\ Creates <= 1
    /\ Cardinality(NewRows) <= 1
    /\ Len(contacts) <= Len(prev) + 1
    /\ ~(\E c \in NewRows : c.linkPrecedence = "primary"
         /\ \E d \in NewRows : d.linkPrecedence = "secondary")

C9_Witness ==
    /\ Succeeded /\ Hits # {}
    /\ Creates = 1
    /\ Supplied(req.email) /\ Supplied(req.phoneNumber)

\* C10: every secondary's linkedId names a stored primary, and every primary
\* has no linkedId.
C10_SecondaryLink ==
    \A c \in Range(contacts) :
        /\ c.linkPrecedence = "secondary" =>
               /\ c.linkedId # Null
               /\ \E p \in Primaries(contacts) : p.id = c.linkedId
        /\ c.linkPrecedence = "primary" => c.linkedId = Null

\* a secondary created by a request that matched only secondaries
C10_Witness ==
    /\ Succeeded /\ Hits # {} /\ Creates = 1
    /\ Hits \subseteq Secondaries(prev)

\* C11: in a response to a matching request, emails lists each email of the
\* cluster once, in creation order, the primary's own email first, and
\* phoneNumbers does the same for the phone numbers.
LastCluster == ClusterOf(contacts, resp.primaryContactId)
LastPrimary == {c \in LastCluster : c.id = resp.primaryContactId}
FirstSeen(field, v) ==
    LET times == {c.createdAt : c \in {d \in LastCluster : d[field] = v}}
    IN  CHOOSE t \in times : \A u \in times : t <= u

Listed(list, field, values) ==
    /\ Range(list) = values
    /\ \A i \in 1..Len(list), j \in 1..Len(list) :
           i < j => /\ list[i] # list[j]
                    /\ FirstSeen(field, list[i]) < FirstSeen(field, list[j])
    /\ \A c \in LastPrimary : c[field] \in values => list[1] = c[field]

C12_AppendOnly ==
    /\ Len(contacts) >= Len(prev)
    /\ \A i \in 1..Len(prev) :
           \E d \in Range(contacts) :
               /\ d.id = prev[i].id
               /\ d.email = prev[i].email
               /\ d.phoneNumber = prev[i].phoneNumber
               /\ d.createdAt = prev[i].createdAt
    /\ \A c \in Range(contacts), d \in Range(contacts) : c.id = d.id => c = d

C12_Witness ==
    /\ Succeeded
    /\ Len(prev) >= 2
    /\ Len(contacts) > Len(prev)

\* C17: the primaryContactId of a successful response names a stored primary,
\* is smaller than every id in secondaryContactIds and is not among them.
C17_PrimaryIsOldest ==
    Succeeded =>
        /\ \E p \in Primaries(contacts) : p.id = resp.primaryContactId
        /\ \A i \in 1..Len(resp.secondaryContactIds) :
               resp.primaryContactId < resp.secondaryContactIds[i]
        /\ resp.primaryContactId \notin Range(resp.secondaryContactIds)

C17_Witness ==
    /\ Succeeded
    /\ Len(resp.secondaryContactIds) >= 2

\* C18: a successful response lists every supplied identifier, and a stored
\* contact of the returned cluster carries it.
C18_CoversRequest ==
    Succeeded =>
        /\ Supplied(req.email) =>
               /\ req.email \in Range(resp.emails)
               /\ \E c \in LastCluster : c.email = req.email
        /\ Supplied(req.phoneNumber) =>
               /\ req.phoneNumber \in Range(resp.phoneNumbers)
               /\ \E c \in LastCluster : c.phoneNumber = req.phoneNumber

\* the email and the phone number were matched under two different primaries
C18_Witness ==
    /\ Succeeded
    /\ Supplied(req.email) /\ Supplied(req.phoneNumber)
    /\ Cardinality(HitRoots) >= 2

\* C13: two interleaved requests for the same unseen pair both read an empty
\* match set and both insert: two primaries carry the pair, nothing in the
\* handler turns the second insert away.
BothDone == \A c \in Callers : calls[c].pc = "done"
SamePair ==
    /\ calls["a"].email = calls["b"].email
    /\ calls["a"].phoneNumber = calls["b"].phoneNumber
BothReadNothing ==
    \A c \in Callers : calls[c].resp.status = 200 /\ calls[c].matchedContacts = <<>>

\* C13: when both requests have read nothing for the same pair, both insert
\* a primary carrying it and each is answered with its own.
C13_DuplicatePrimaryRace ==
    (BothDone /\ SamePair /\ BothReadNothing) =>
        /\ Cardinality({r \in Primaries(contacts) :
                            /\ r.email = calls["a"].email
                            /\ r.phoneNumber = calls["a"].phoneNumber}) = 2
        /\ calls["a"].resp.primaryContactId # calls["b"].resp.primaryContactId
        /\ \A c \in Callers :
               \E r \in Primaries(contacts) : r.id = calls[c].resp.primaryContactId

C13_Witness ==
    /\ BothDone /\ SamePair /\ BothReadNothing
    /\ Supplied(calls["a"].email) /\ Supplied(calls["a"].phoneNumber)
    /\ Cardinality({r \in Primaries(contacts) :
                        /\ r.email = calls["a"].email
                        /\ r.phoneNumber = calls["a"].phoneNumber}) = 2

\* C14: a request one of whose repository calls failed is answered 500 and
\* never 200.
C14_NoFalseSuccess ==
    \A c \in Callers :
        calls[c].failedAt # "none" =>
            /\ calls[c].pc = "done"
            /\ calls[c].resp.status = 500

C14_Witness ==
    /\ calls["a"].failedAt = "findRoot"
    /\ calls["a"].pc = "done"

\* C15: a request that ends with a repository error leaves no contact it
\* wrote in the table.
C15_NoPartialWrite ==
    \A c \in Callers :
        (calls[c].pc = "done" /\ calls[c].resp.status = 500) =>
            \A i \in 1..Len(calls[c].written) : calls[c].written[i] \notin Ids(contacts)

\* C16: the match set is exactly the stored contacts whose email equals the
\* supplied email or whose phone number equals the supplied phone number.
JustMatched(c) == calls[c].pc \in {"createPrimary", "findRoot"}

\* C16: right after step 1 the match set holds exactly the contacts equal to
\* the request on a supplied field, and none matched through an absent one.
C16_MatchBySuppliedFields ==
    \A c \in Callers :
        JustMatched(c) =>
            /\ Range(calls[c].matchedContacts) =
                   {r \in Range(contacts) :
                        \/ Supplied(calls[c].email) /\ r.email = calls[c].email
                        \/ Supplied(calls[c].phoneNumber)
                               /\ r.phoneNumber = calls[c].phoneNumber}
            /\ ~Supplied(calls[c].phoneNumber) =>
                   \A r \in Range(calls[c].matchedContacts) : r.email = calls[c].email
            /\ ~Supplied(calls[c].email) =>
                   \A r \in Range(calls[c].matchedContacts) :
                       r.phoneNumber = calls[c].phoneNumber

\* an email-only request that leaves aside a contact whose phone is absent too
C16_Witness ==
    /\ JustMatched("a")
    /\ Supplied(calls["a"].email) /\ calls["a"].phoneNumber = Null
    /\ \E r \in Range(contacts) :
           /\ r.phoneNumber = Null
           /\ r \notin Range(calls["a"].matchedContacts)

\* C19: between two requests that carry the same pair the answer never grows.
\* Oldest is the smallest root among the contacts a pair matches.  A request
\* whose pair matched is answered with it, every request leaves its pair
\* matching with an Oldest no larger than its answer, and no request raises
\* the Oldest of a pair that matched before it: so a later request is
\* answered at most what an earlier one with the same pair was.
Matching(store, email, phoneNumber) ==
    {r \in Range(store) :
         \/ Supplied(email) /\ r.email = email
         \/ Supplied(phoneNumber) /\ r.phoneNumber = phoneNumber}

Oldest(store, email, phoneNumber) ==
    LET roots == {Under(c) : c \in Matching(store, email, phoneNumber)}
    IN  CHOOSE m \in roots : \A x \in roots : m <= x

\* C19: the answer to a pair that matched never grows from one request to
\* the next, and each request is answered with it.
C19_PrimaryNeverGrows ==
    \A email \in EmailInputs, phoneNumber \in PhoneInputs :
        (Supplied(email) \/ Supplied(phoneNumber)) =>
            /\ Matching(prev, email, phoneNumber) # {} =>
                   /\ Matching(contacts, email, phoneNumber) # {}
                   /\ Oldest(contacts, email, phoneNumber)
                          <= Oldest(prev, email, phoneNumber)
            /\ (Succeeded /\ req = [email |-> email, phoneNumber |-> phoneNumber]) =>
                   /\ Matching(prev, email, phoneNumber) # {} =>
                          resp.primaryContactId = Oldest(prev, email, phoneNumber)
                   /\ Matching(contacts, email, phoneNumber) # {}
                   /\ Oldest(contacts, email, phoneNumber) <= resp.primaryContactId

\* the pair that once created primary P is now answered with an older primary
C19_Witness ==
    /\ Succeeded
    /\ \E p \in Primaries(prev) :
           /\ p.email = req.email
           /\ p.phoneNumber = req.phoneNumber
           /\ resp.primaryContactId < p.id

====
